---- MODULE Spec2Model ----
(***************************************************************************)
(* Model of pyfcode's FcodeCore (src/lib/pyfcode/fcode/__init__.py): the   *)
(* process-wide registry of active and legacy codes, its deflock gate, the *)
(* list of codes defined outside the decorator, and the singleton that     *)
(* holds it.                                                               *)
(*                                                                         *)
(* A Python dict keeps insertion order, and the lookups by type return the *)
(* first match in that order, so a dict is modelled as a sequence of       *)
(* [k, v] entries with distinct keys.                                      *)
(***************************************************************************)
EXTENDS Integers, Sequences, FiniteSets

VARIABLES
    initialized,          \* FcodeCore is a key of _SingletonMeta.__instances
    constructed,          \* how many times FcodeCore.__init__ has run
    active_code_to_type,  \* self._active_code_to_type
    legacy_code_to_type,  \* self._legacy_code_to_type
    deflock,              \* self._deflock
    non_decorator_codes,  \* self._non_decorator_codes
    last,                 \* the call made by the latest step and its outcome
    direct_entries,       \* history: the entries a direct defcode created
    legacy_registered     \* history: the legacy codes, as they were registered

vars == <<initialized, constructed, active_code_to_type, legacy_code_to_type,
          deflock, non_decorator_codes, last, direct_entries,
          legacy_registered>>

\* the history of the registrations, kept by SpecHistory alone
history == <<direct_entries, legacy_registered>>

registry == <<active_code_to_type, legacy_code_to_type, deflock,
              non_decorator_codes>>

----------------------------------------------------------------------------
(* Bounds *)

\* longest legacy_codes argument passed to defcode
MaxLegacyArgs == 2
\* longest _non_decorator_codes list (no direct defcode succeeds beyond it)
MaxNonDecorator == 2
\* most instances FcodeCore.__init__ builds in one run
MaxInstances == 2

----------------------------------------------------------------------------
(* Inputs *)

\* Python's None; differs from every code and every type
None == "None"

\* the codes callers pass; is_code_valid accepts every str, "" included
Codes == {"", "a"}

\* the types callers pass: class Animal, and class Dog(Animal)
Types == {"Animal", "Dog"}

\* issubclass(v, base)
issubclass(v, base) == v = base \/ (v = "Dog" /\ base = "Animal")

RECURSIVE SeqsUpTo(_, _)
\* every list over S of length at most n
SeqsUpTo(S, n) ==
    IF n = 0 THEN {<<>>}
    ELSE LET shorter == SeqsUpTo(S, n - 1)
         IN  shorter \cup {Append(s, x) : s \in shorter, x \in S}

\* the legacy_codes arguments; None and [] are both falsy and modelled as <<>>
LegacyArgs == SeqsUpTo(Codes, MaxLegacyArgs)

----------------------------------------------------------------------------
(* dict[str, type] *)

\* d.keys()
Keys(d) == {d[i].k : i \in DOMAIN d}

\* d.values()
Values(d) == {d[i].v : i \in DOMAIN d}

\* k in d
Has(d, k) == k \in Keys(d)

\* d.get(k, None)
Get(d, k) ==
    IF Has(d, k) THEN d[CHOOSE i \in DOMAIN d : d[i].k = k].v ELSE None

\* d[k] = v: a present key keeps its place, a new key goes last
Set(d, k, v) ==
    IF Has(d, k)
    THEN [i \in DOMAIN d |-> IF d[i].k = k THEN [k |-> k, v |-> v] ELSE d[i]]
    ELSE Append(d, [k |-> k, v |-> v])

\* del d[k]
Del(d, k) == SelectSeq(d, LAMBDA e : e.k # k)

----------------------------------------------------------------------------
(* FcodeCore.is_code_valid, FcodeCore.check_code_valid *)

is_code_valid(code) == TRUE

\* TRUE when check_code_valid(code) raises
check_code_valid(code) == ~is_code_valid(code)

----------------------------------------------------------------------------
(* FcodeCore.defcode *)

\* no ValueError raised
NoError == <<>>

\* the ValueError the validation loop raises on legacy_codes[i..], the one of
\* the first lc that fails; NoError when the loop runs to its end
RECURSIVE LegacyLoopError(_, _)
LegacyLoopError(legacy_codes, i) ==
    IF i > Len(legacy_codes) THEN NoError
    ELSE IF check_code_valid(legacy_codes[i])
         THEN <<"invalid code", legacy_codes[i]>>
    ELSE IF Has(legacy_code_to_type, legacy_codes[i])
         THEN <<"legacy code", legacy_codes[i], "already registered">>
    ELSE LegacyLoopError(legacy_codes, i + 1)

\* DefcodeError without the deflock test of lines 69-70
DefcodeError_NoDeflock(code, legacy_codes) ==
    IF check_code_valid(code) THEN <<"invalid code", code>>
    ELSE IF Has(active_code_to_type, code)
         THEN <<"active code", code, "already registered">>
    ELSE LegacyLoopError(legacy_codes, 1)

\* DefcodeError without the active-code test of lines 76-79
DefcodeError_NoActiveTest(code, legacy_codes) ==
    IF deflock THEN <<"deflock">>
    ELSE IF check_code_valid(code) THEN <<"invalid code", code>>
    ELSE LegacyLoopError(legacy_codes, 1)

\* DefcodeError with a validation loop that stops after legacy_codes[0]
DefcodeError_FirstLegacyOnly(code, legacy_codes) ==
    IF deflock THEN <<"deflock">>
    ELSE IF check_code_valid(code) THEN <<"invalid code", code>>
    ELSE IF Has(active_code_to_type, code)
         THEN <<"active code", code, "already registered">>
    ELSE IF legacy_codes = <<>> THEN NoError
    ELSE LegacyLoopError(<<legacy_codes[1]>>, 1)

\* the ValueError defcode(code, t, legacy_codes) raises, NoError when it
\* raises none
DefcodeError(code, legacy_codes) ==
    IF deflock THEN <<"deflock">>
    ELSE IF check_code_valid(code) THEN <<"invalid code", code>>
    ELSE IF Has(active_code_to_type, code)
         THEN <<"active code", code, "already registered">>
    ELSE LegacyLoopError(legacy_codes, 1)

\* for lc in legacy_codes_to_attach: self._legacy_code_to_type[lc] = t
RECURSIVE AttachLegacy(_, _, _, _)
AttachLegacy(d, legacy_codes_to_attach, t, i) ==
    IF i > Len(legacy_codes_to_attach) THEN d
    ELSE AttachLegacy(Set(d, legacy_codes_to_attach[i], t),
                      legacy_codes_to_attach, t, i + 1)

\* what defcode(code, t, legacy_codes, _is_from_decorator) raises and the
\* dicts and the list it leaves
DefcodeOutcome(code, t, legacy_codes, is_from_decorator) ==
    LET err == DefcodeError(code, legacy_codes)
    IN  IF err # NoError
        THEN [err |-> err,
              active |-> active_code_to_type,
              legacy |-> legacy_code_to_type,
              non_decorator |-> non_decorator_codes]
        ELSE [err |-> NoError,
              legacy |-> AttachLegacy(legacy_code_to_type, legacy_codes, t, 1),
              active |-> Set(active_code_to_type, code, t),
              non_decorator |->
                  IF is_from_decorator THEN non_decorator_codes
                  ELSE Append(non_decorator_codes, code)]

\* the decorator's inner passing no legacy codes on
InnerOutcome_NoLegacyCodes(code, legacy_codes, target) ==
    DefcodeOutcome(code, target, <<>>, TRUE)

\* the decorator code(code, legacy_codes) applied to target:
\* fcode.defcode(code, target, legacy_codes, _is_from_decorator=True)
InnerOutcome(code, legacy_codes, target) ==
    DefcodeOutcome(code, target, legacy_codes, TRUE)

----------------------------------------------------------------------------
(* FcodeCore.try_undefcode *)

\* UndefcodeOn without the deflock test of lines 99-100
UndefcodeOn_NoDeflock(a, l, code) ==
    IF Has(a, code)
    THEN [active |-> Del(a, code), legacy |-> l, ret |-> "True"]
    ELSE IF Has(l, code)
         THEN [active |-> a, legacy |-> Del(l, code), ret |-> "True"]
    ELSE [active |-> a, legacy |-> l, ret |-> "False"]

\* try_undefcode(code) run on dicts a and l: the dicts it leaves and what it
\* returns
UndefcodeOn(a, l, code) ==
    IF deflock THEN [active |-> a, legacy |-> l, ret |-> "False"]
    ELSE IF Has(a, code)
         THEN [active |-> Del(a, code), legacy |-> l, ret |-> "True"]
    ELSE IF Has(l, code)
         THEN [active |-> a, legacy |-> Del(l, code), ret |-> "True"]
    ELSE [active |-> a, legacy |-> l, ret |-> "False"]

----------------------------------------------------------------------------
(* FcodeCore.try_undef_non_decorator_codes *)

\* UndefLoop without the `return False` of lines 112-113
RECURSIVE UndefLoop_NoReturnFalse(_, _, _)
UndefLoop_NoReturnFalse(a, l, i) ==
    IF i > Len(non_decorator_codes)
    THEN [active |-> a, legacy |-> l, ret |-> "True"]
    ELSE LET r == UndefcodeOn(a, l, non_decorator_codes[i])
         IN  UndefLoop_NoReturnFalse(r.active, r.legacy, i + 1)

\* the loop over self._non_decorator_codes from index i on
RECURSIVE UndefLoop(_, _, _)
UndefLoop(a, l, i) ==
    IF i > Len(non_decorator_codes)
    THEN [active |-> a, legacy |-> l, ret |-> "True"]
    ELSE LET r == UndefcodeOn(a, l, non_decorator_codes[i])
         IN  IF r.ret = "False"
             THEN [active |-> a, legacy |-> l, ret |-> "False"]
             ELSE UndefLoop(r.active, r.legacy, i + 1)

----------------------------------------------------------------------------
(* Lookups *)

\* the first key of d, in insertion order, whose value is t; None without one
FirstKeyOf(d, t) ==
    IF t \in Values(d)
    THEN LET i == CHOOSE j \in DOMAIN d :
                      /\ d[j].v = t
                      /\ \A h \in 1..(j - 1) : d[h].v # t
         IN  d[i].k
    ELSE None

\* FcodeCore.try_get_active_code_for_type
try_get_active_code_for_type(t) == FirstKeyOf(active_code_to_type, t)

\* FcodeCore.get_active_code_for_type; `not res` holds of None and of ""
get_active_code_for_type(t) ==
    LET res == try_get_active_code_for_type(t)
    IN  IF res = None \/ res = ""
        THEN [raised |-> TRUE, val |-> None]
        ELSE [raised |-> FALSE, val |-> res]

\* KeysOf without the `if v is t` of line 176
KeysOf_AnyType(d, t) == [i \in DOMAIN d |-> d[i].k]

\* the keys of d whose value is t, in insertion order
KeysOf(d, t) ==
    LET hits == SelectSeq(d, LAMBDA e : e.v = t)
    IN  [i \in DOMAIN hits |-> hits[i].k]

\* FcodeCore.get_all_codes_for_type
get_all_codes_for_type(t) ==
    LET first == FirstKeyOf(active_code_to_type, t)
    IN  IF first = None
        THEN [raised |-> TRUE, val |-> <<>>]
        ELSE [raised |-> FALSE,
              val |-> <<first>> \o KeysOf(legacy_code_to_type, t)]

\* try_get_type_for_any_code looking in the legacy dict first
try_get_type_for_any_code_LegacyFirst(code) ==
    LET res == Get(legacy_code_to_type, code)
    IN  IF res = None THEN Get(active_code_to_type, code) ELSE res

\* FcodeCore.try_get_type_for_any_code
try_get_type_for_any_code(code) ==
    LET res == Get(active_code_to_type, code)
    IN  IF res = None THEN Get(legacy_code_to_type, code) ELSE res

\* FcodeCore.get_type_for_any_code
get_type_for_any_code(code) ==
    LET res == try_get_type_for_any_code(code)
    IN  IF res = None
        THEN [raised |-> TRUE, val |-> None]
        ELSE [raised |-> FALSE, val |-> res]

\* FcodeCore.try_get_all_codes
try_get_all_codes(where_base_type) ==
    LET picked == SelectSeq(active_code_to_type,
                            LAMBDA e : \/ where_base_type = None
                                       \/ issubclass(e.v, where_base_type))
    IN  [i \in DOMAIN picked |-> get_all_codes_for_type(picked[i].v).val]

----------------------------------------------------------------------------
(* The calls *)

\* what `last` records of a call: the method, what it returned, and the
\* ValueError it raised
Call(op, ret, err) == [op |-> op, ret |-> ret, err |-> err]

NoCall == Call("none", None, NoError)

\* _SingletonMeta.__call__ may build an instance
CanAccess == initialized \/ constructed < MaxInstances

Init ==
    /\ initialized = FALSE
    /\ constructed = 0
    /\ active_code_to_type = <<>>
    /\ legacy_code_to_type = <<>>
    /\ deflock = FALSE
    /\ non_decorator_codes = <<>>
    /\ last = NoCall
    /\ direct_entries = {}
    /\ legacy_registered = <<>>

\* ie building a new instance at every access
ie_AlwaysConstructs ==
    /\ initialized' = TRUE
    /\ constructed' = constructed + 1

\* _SingletonMeta.__call__ / _Singleton.ie: every call below reaches the
\* registry through it, so the first one runs FcodeCore.__init__
ie ==
    /\ initialized' = TRUE
    /\ constructed' = IF initialized THEN constructed ELSE constructed + 1

\* a defcode call on FcodeCore.ie() with the outcome out
Defcoded(out) ==
    /\ CanAccess
    /\ ie
    /\ Len(out.non_decorator) <= MaxNonDecorator
    /\ legacy_code_to_type' = out.legacy
    /\ active_code_to_type' = out.active
    /\ non_decorator_codes' = out.non_decorator
    /\ UNCHANGED deflock
    /\ last' = Call("defcode", None, out.err)

\* FcodeCore.ie().defcode(code, t, legacy_codes,
\*                        _is_from_decorator=is_from_decorator)
defcode(code, t, legacy_codes, is_from_decorator) ==
    Defcoded(DefcodeOutcome(code, t, legacy_codes, is_from_decorator))

\* code(code, legacy_codes)(target): the decorator's inner
inner(code, legacy_codes, target) ==
    Defcoded(InnerOutcome(code, legacy_codes, target))

\* FcodeCore.ie().try_undefcode(code)
try_undefcode(code) ==
    /\ CanAccess
    /\ ie
    /\ LET r == UndefcodeOn(active_code_to_type, legacy_code_to_type, code)
       IN  /\ active_code_to_type' = r.active
           /\ legacy_code_to_type' = r.legacy
           /\ UNCHANGED <<deflock, non_decorator_codes>>
           /\ last' = Call("try_undefcode", r.ret, NoError)

\* FcodeCore.ie().try_undef_non_decorator_codes()
try_undef_non_decorator_codes ==
    /\ CanAccess
    /\ ie
    /\ LET r == UndefLoop(active_code_to_type, legacy_code_to_type, 1)
       IN  /\ active_code_to_type' = r.active
           /\ legacy_code_to_type' = r.legacy
           /\ non_decorator_codes' =
                  IF r.ret = "True" THEN <<>> ELSE non_decorator_codes
           /\ UNCHANGED deflock
           /\ last' = Call("try_undef_non_decorator_codes", r.ret, NoError)

\* FcodeCore.ie().deflock = value
set_deflock(value) ==
    /\ CanAccess
    /\ ie
    /\ deflock' = value
    /\ UNCHANGED <<active_code_to_type, legacy_code_to_type,
                   non_decorator_codes>>
    /\ last' = Call("set_deflock", None, NoError)

\* FcodeCore.discard(should_validate)
discard(should_validate) ==
    IF should_validate /\ ~initialized
    THEN /\ UNCHANGED <<initialized, constructed, registry>>
         /\ last' = Call("discard", None, <<"cannot discard">>)
    ELSE /\ initialized' = FALSE
         /\ UNCHANGED constructed
         /\ active_code_to_type' = <<>>
         /\ legacy_code_to_type' = <<>>
         /\ deflock' = FALSE
         /\ non_decorator_codes' = <<>>
         /\ last' = Call("discard", None, NoError)

\* a direct call of defcode
DefcodeStep ==
    \E code \in Codes, t \in Types, legacy_codes \in LegacyArgs :
        defcode(code, t, legacy_codes, FALSE)

\* a class definition under the decorator
DecoratorStep ==
    \E code \in Codes, legacy_codes \in LegacyArgs, target \in Types :
        inner(code, legacy_codes, target)

UndefcodeStep == \E code \in Codes : try_undefcode(code)

SetDeflockStep == \E value \in BOOLEAN : set_deflock(value)

DiscardStep == \E should_validate \in BOOLEAN : discard(should_validate)

\* the registry's calls on the one instance the process holds
Next ==
    \/ DefcodeStep /\ UNCHANGED history
    \/ DecoratorStep /\ UNCHANGED history
    \/ UndefcodeStep /\ UNCHANGED history
    \/ try_undef_non_decorator_codes /\ UNCHANGED history
    \/ SetDeflockStep /\ UNCHANGED history

Spec == Init /\ [][Next]_vars

\* the same calls in a process that also discards the singleton
NextSingleton ==
    \/ DefcodeStep /\ UNCHANGED history
    \/ DecoratorStep /\ UNCHANGED history
    \/ UndefcodeStep /\ UNCHANGED history
    \/ try_undef_non_decorator_codes /\ UNCHANGED history
    \/ SetDeflockStep /\ UNCHANGED history
    \/ DiscardStep /\ UNCHANGED history

SpecSingleton == Init /\ [][NextSingleton]_vars

----------------------------------------------------------------------------
(* The calls with the history of the registrations *)

\* cs followed by the codes of legacy_codes[i..] it does not hold yet
RECURSIVE AppendNew(_, _, _)
AppendNew(cs, legacy_codes, i) ==
    IF i > Len(legacy_codes) THEN cs
    ELSE AppendNew(IF \E j \in DOMAIN cs : cs[j] = legacy_codes[i]
                   THEN cs ELSE Append(cs, legacy_codes[i]),
                   legacy_codes, i + 1)

\* the entries a successful defcode(code, t, legacy_codes) creates
Created(code, legacy_codes) ==
    {<<"active", code>>}
        \cup {<<"legacy", legacy_codes[i]>> : i \in DOMAIN legacy_codes}

\* the history after a defcode call: one that raised registers nothing
Registered(code, legacy_codes, is_from_decorator) ==
    IF last'.err # NoError
    THEN UNCHANGED history
    ELSE /\ direct_entries' =
                IF is_from_decorator
                THEN direct_entries \ Created(code, legacy_codes)
                ELSE direct_entries \cup Created(code, legacy_codes)
         /\ legacy_registered' =
                AppendNew(legacy_registered, legacy_codes, 1)

\* the history after a call that removes entries: what is gone is forgotten
Removed ==
    /\ direct_entries' =
           {e \in direct_entries :
               IF e[1] = "active"
               THEN \E i \in DOMAIN active_code_to_type' :
                        active_code_to_type'[i].k = e[2]
               ELSE \E i \in DOMAIN legacy_code_to_type' :
                        legacy_code_to_type'[i].k = e[2]}
    /\ legacy_registered' =
           SelectSeq(legacy_registered,
                     LAMBDA c : \E i \in DOMAIN legacy_code_to_type' :
                                    legacy_code_to_type'[i].k = c)

NextHistory ==
    \/ \E code \in Codes, t \in Types, legacy_codes \in LegacyArgs :
           /\ defcode(code, t, legacy_codes, FALSE)
           /\ Registered(code, legacy_codes, FALSE)
    \/ \E code \in Codes, legacy_codes \in LegacyArgs, target \in Types :
           /\ inner(code, legacy_codes, target)
           /\ Registered(code, legacy_codes, TRUE)
    \/ UndefcodeStep /\ Removed
    \/ try_undef_non_decorator_codes /\ Removed
    \/ SetDeflockStep /\ UNCHANGED history

SpecHistory == Init /\ [][NextHistory]_vars

----------------------------------------------------------------------------
(* Properties *)

\* the latest step was a defcode call that returned without raising
DefcodeSucceeded == last.op = "defcode" /\ last.err = NoError

\* the latest step was a defcode call that raised
DefcodeRaised == last.op = "defcode" /\ last.err # NoError

\* C1: in every reachable state no code is a key of both the active and the
\* legacy mapping.
C1_NoCodeInBoth ==
    Keys(active_code_to_type) \cap Keys(legacy_code_to_type) = {}

\* C2: in every reachable state every type that is a value of the active
\* mapping is the value of exactly one active code.
C2_OneActiveCodePerType ==
    \A t \in Values(active_code_to_type) :
        Cardinality({i \in DOMAIN active_code_to_type :
                        active_code_to_type[i].v = t}) = 1

\* C3: in every reachable state every type that is a value of the legacy
\* mapping is also a value of the active mapping.
C3_LegacyTypeHasActiveCode ==
    Values(legacy_code_to_type) \subseteq Values(active_code_to_type)

\* C4: a defcode(code, t) call without legacy codes that succeeds leaves a
\* registry in which get_type_for_any_code(code) returns t and
\* get_active_code_for_type(t) returns code.
C4_RegisterThenLookup ==
    [][DefcodeSucceeded' =>
        \A code \in Codes, t \in Types, dec \in BOOLEAN :
            defcode(code, t, <<>>, dec) =>
                /\ get_type_for_any_code(code)' =
                       [raised |-> FALSE, val |-> t]
                /\ get_active_code_for_type(t)' =
                       [raised |-> FALSE, val |-> code]]_vars

\* C5: a defcode(code, t, legacy_codes) call that succeeds leaves a registry
\* in which get_type_for_any_code(lc) returns t for every lc of legacy_codes
\* and get_all_codes_for_type(t) contains every such lc.
C5_LegacyCodesResolve ==
    [][DefcodeSucceeded' =>
        \A code \in Codes, t \in Types, legacy_codes \in LegacyArgs,
           dec \in BOOLEAN :
            defcode(code, t, legacy_codes, dec) =>
                \A i \in DOMAIN legacy_codes :
                    /\ get_type_for_any_code(legacy_codes[i])' =
                           [raised |-> FALSE, val |-> t]
                    /\ ~get_all_codes_for_type(t)'.raised
                    /\ \E j \in DOMAIN get_all_codes_for_type(t)'.val :
                           get_all_codes_for_type(t)'.val[j] = legacy_codes[i]
      ]_vars

\* C6: on a locked registry every defcode call, direct or from the decorator
\* and whatever its arguments, raises and leaves the two mappings, the list
\* of codes defined outside the decorator and the lock as they were, so a
\* code that resolved to None before the call still does.
C6_LockedDefcodeRaises ==
    [][(deflock /\ last'.op = "defcode") =>
        /\ last'.err # NoError
        /\ UNCHANGED registry
        /\ \A c \in Codes :
               try_get_type_for_any_code(c) = None =>
                   try_get_type_for_any_code(c)' = None]_vars

\* C6 witness: a defcode call has just raised on a locked registry that
\* holds a code and lacks another.
C6_Witness ==
    /\ deflock
    /\ DefcodeRaised
    /\ active_code_to_type # <<>>
    /\ \E c \in Codes : try_get_type_for_any_code(c) = None

\* C7: on a locked registry try_undefcode returns False for every code and
\* leaves the two mappings, the list and the lock as they were.
C7_LockedUndefcodeFalse ==
    [][(deflock /\ last'.op = "try_undefcode") =>
        /\ last'.ret = "False"
        /\ UNCHANGED registry]_vars

\* C7 witness: try_undefcode has just returned False on a locked registry
\* in which every code is registered.
C7_Witness ==
    /\ deflock
    /\ last.op = "try_undefcode"
    /\ last.ret = "False"
    /\ Keys(active_code_to_type) \cup Keys(legacy_code_to_type) = Codes

\* C8: on an unlocked registry defcode(code, t, ...) raises whenever code is
\* a key of the active mapping, whatever type it maps to, and leaves the two
\* mappings, the list and the lock as they were.
C8_DuplicateActiveRaises ==
    [][(~deflock /\ last'.op = "defcode") =>
        \/ /\ last'.err # NoError
           /\ UNCHANGED registry
        \/ ~\E code \in Keys(active_code_to_type), t \in Types,
              legacy_codes \in LegacyArgs, dec \in BOOLEAN :
               defcode(code, t, legacy_codes, dec)]_vars

\* C8 witness: defcode has just raised for an active code on an unlocked
\* registry.
C8_Witness ==
    /\ ~deflock
    /\ DefcodeRaised
    /\ last.err[1] = "active code"
    /\ Has(active_code_to_type, last.err[2])

\* C9: on an unlocked registry defcode(code, t, legacy_codes) raises whenever
\* an element of legacy_codes, at any position, is a key of the legacy
\* mapping, and then adds nothing to the active mapping, the legacy mapping
\* or the list of codes defined outside the decorator.
C9_DuplicateLegacyRaises ==
    [][(~deflock /\ last'.op = "defcode") =>
        \/ /\ last'.err # NoError
           /\ UNCHANGED <<active_code_to_type, legacy_code_to_type,
                          non_decorator_codes>>
        \/ ~\E code \in Codes, t \in Types, legacy_codes \in LegacyArgs,
              dec \in BOOLEAN :
               /\ \E i \in DOMAIN legacy_codes :
                      Has(legacy_code_to_type, legacy_codes[i])
               /\ defcode(code, t, legacy_codes, dec)]_vars

\* C9 witness: defcode has just raised for a legacy code on an unlocked
\* registry in which another code is still unregistered.
C9_Witness ==
    /\ ~deflock
    /\ DefcodeRaised
    /\ last.err[1] = "legacy code"
    /\ Has(legacy_code_to_type, last.err[2])
    /\ \E c \in Codes : try_get_type_for_any_code(c) = None

\* C10: on an unlocked registry try_undefcode(code) returns True exactly when
\* code is a key of the active or of the legacy mapping; after it returned
\* True code is a key of neither, and when code was in neither it returns
\* False and changes nothing.
C10_UndefcodeRemoves ==
    [][(~deflock /\ last'.op = "try_undefcode") =>
        \A code \in Codes :
            try_undefcode(code) =>
                /\ last'.ret = "True" <=>
                       (\/ Has(active_code_to_type, code)
                        \/ Has(legacy_code_to_type, code))
                /\ last'.ret = "True" =>
                       /\ ~Has(active_code_to_type', code)
                       /\ ~Has(legacy_code_to_type', code)
                       /\ try_get_type_for_any_code(code)' = None
                /\ (/\ ~Has(active_code_to_type, code)
                    /\ ~Has(legacy_code_to_type, code)) =>
                       /\ last'.ret = "False"
                       /\ UNCHANGED registry]_vars

\* the latest step was a try_undef_non_decorator_codes call
ClearCalled == last.op = "try_undef_non_decorator_codes"

\* how many entries of the list cs are the code c
RECURSIVE Count(_, _)
Count(c, cs) ==
    IF cs = <<>> THEN 0
    ELSE (IF Head(cs) = c THEN 1 ELSE 0) + Count(c, Tail(cs))

\* try_undefcode succeeds for every entry of the list, taken in list order:
\* the registry is unlocked (or the list empty) and no code is listed more
\* often than the mappings hold it
EveryListedRemovalSucceeds ==
    \/ non_decorator_codes = <<>>
    \/ /\ ~deflock
       /\ \A c \in Codes :
              Count(c, non_decorator_codes) <=
                  (IF Has(active_code_to_type, c) THEN 1 ELSE 0)
                  + (IF Has(legacy_code_to_type, c) THEN 1 ELSE 0)

\* C11: try_undef_non_decorator_codes returns True exactly when try_undefcode
\* succeeds, in list order, for every entry of the list; after True the list
\* is empty (so a call on an empty list returns True and changes nothing),
\* and after False the list is what it was.
C11_ClearResult ==
    [][ClearCalled' =>
        /\ last'.ret = "True" <=> EveryListedRemovalSucceeds
        /\ last'.ret = "True" => non_decorator_codes' = <<>>
        /\ last'.ret = "False" => UNCHANGED non_decorator_codes
        /\ non_decorator_codes = <<>> =>
               /\ last'.ret = "True"
               /\ UNCHANGED registry]_vars

\* C11 witness: the call has just returned False on an unlocked registry,
\* the second listed code being the one that could not be removed.
C11_Witness ==
    /\ ClearCalled
    /\ last.ret = "False"
    /\ ~deflock
    /\ Len(non_decorator_codes) = 2
    /\ ~Has(active_code_to_type, non_decorator_codes[2])
    /\ ~Has(legacy_code_to_type, non_decorator_codes[2])
    /\ non_decorator_codes[1] # non_decorator_codes[2]

\* the types of the active mapping that pass the filter where_base_type
Passing(where_base_type) ==
    {t \in Values(active_code_to_type) :
        where_base_type = None \/ issubclass(t, where_base_type)}

\* C14: in every reachable state try_get_all_codes(where_base_type) does not
\* fail and returns exactly one group for each distinct type of the active
\* mapping that passes the filter, each group being
\* get_all_codes_for_type of its type and so headed by an active code of it.
C14_OneGroupPerType ==
    \A where_base_type \in {None} \cup Types :
        LET groups == try_get_all_codes(where_base_type)
        IN  /\ \A t \in Values(active_code_to_type) :
                   ~get_all_codes_for_type(t).raised
            /\ Len(groups) = Cardinality(Passing(where_base_type))
            /\ \A t \in Passing(where_base_type) :
                   \E i \in DOMAIN groups :
                       groups[i] = get_all_codes_for_type(t).val
            /\ \A i \in DOMAIN groups :
                   \E t \in Passing(where_base_type) :
                       /\ groups[i] = get_all_codes_for_type(t).val
                       /\ \E j \in DOMAIN active_code_to_type :
                              /\ active_code_to_type[j].k = groups[i][1]
                              /\ active_code_to_type[j].v = t

\* C15: in every reachable state get_active_code_for_type(t) fails exactly
\* when no active code maps to t and otherwise returns a code that maps to t;
\* try_get_active_code_for_type(t) returns None exactly when the other fails
\* and the same code otherwise. The codes include "".
C15_ActiveCodeLookup ==
    \A t \in Types :
        LET r  == get_active_code_for_type(t)
            tr == try_get_active_code_for_type(t)
        IN  /\ r.raised <=> t \notin Values(active_code_to_type)
            /\ ~r.raised =>
                   \E i \in DOMAIN active_code_to_type :
                       /\ active_code_to_type[i].k = r.val
                       /\ active_code_to_type[i].v = t
            /\ tr = None <=> r.raised
            /\ ~r.raised => tr = r.val

\* C16: in every reachable state get_type_for_any_code(code) returns the
\* active mapping's type of code when code is an active key, else the legacy
\* mapping's type when code is a legacy key, and fails exactly when code is
\* in neither; try_get_type_for_any_code(code) returns the same type, and
\* None exactly when the other fails.
C16_TypeLookup ==
    \A code \in Codes :
        LET r  == get_type_for_any_code(code)
            tr == try_get_type_for_any_code(code)
            inActive == \E i \in DOMAIN active_code_to_type :
                            active_code_to_type[i].k = code
            inLegacy == \E i \in DOMAIN legacy_code_to_type :
                            legacy_code_to_type[i].k = code
        IN  /\ inActive =>
                   \A i \in DOMAIN active_code_to_type :
                       active_code_to_type[i].k = code =>
                           /\ r = [raised |-> FALSE,
                                   val |-> active_code_to_type[i].v]
                           /\ tr = active_code_to_type[i].v
            /\ (~inActive /\ inLegacy) =>
                   \A i \in DOMAIN legacy_code_to_type :
                       legacy_code_to_type[i].k = code =>
                           /\ r = [raised |-> FALSE,
                                   val |-> legacy_code_to_type[i].v]
                           /\ tr = legacy_code_to_type[i].v
            /\ r.raised <=> (~inActive /\ ~inLegacy)
            /\ tr = None <=> r.raised

\* C16 witness: one code is an active key and a legacy key with two
\* different types, and another code is a key of neither mapping.
C16_Witness ==
    /\ \E c \in Codes :
           /\ Has(active_code_to_type, c)
           /\ Has(legacy_code_to_type, c)
           /\ Get(active_code_to_type, c) # Get(legacy_code_to_type, c)
    /\ \E c \in Codes :
           /\ ~Has(active_code_to_type, c)
           /\ ~Has(legacy_code_to_type, c)

\* C19: in every reachable state the list of codes defined outside the
\* decorator holds no code twice and only active codes, so that on an
\* unlocked registry try_undef_non_decorator_codes always returns True.
C19_ListedCodesAreActive ==
    [][/\ \A c \in Codes : Count(c, non_decorator_codes') <= 1
       /\ \A i \in DOMAIN non_decorator_codes' :
              Has(active_code_to_type', non_decorator_codes'[i])
       /\ (~deflock /\ ClearCalled') => last'.ret = "True"]_vars

\* C20: whenever try_undef_non_decorator_codes returns False, the active and
\* the legacy mapping are what they were before the call.
C20_ClearAllOrNothing ==
    [][(ClearCalled' /\ last'.ret = "False") =>
        UNCHANGED <<active_code_to_type, legacy_code_to_type>>]_vars

\* C17: from the same state and with the same code, legacy codes and type,
\* the decorator and a direct defcode raise under the same conditions and
\* leave the same active and legacy mappings; a direct defcode that succeeds
\* appends code once to the end of the list of codes defined outside the
\* decorator, and the decorator leaves that list as it is.
C17_DecoratorLikeDirect ==
    \A code \in Codes, legacy_codes \in LegacyArgs, t \in Types :
        LET dec == InnerOutcome(code, legacy_codes, t)
            dir == DefcodeOutcome(code, t, legacy_codes, FALSE)
        IN  /\ dec.err = dir.err
            /\ dec.active = dir.active
            /\ dec.legacy = dir.legacy
            /\ dec.non_decorator = non_decorator_codes
            /\ dir.non_decorator =
                   IF dir.err = NoError
                   THEN non_decorator_codes \o <<code>>
                   ELSE non_decorator_codes

\* C17 witness: the decorator has just registered a code with a legacy code
\* (the list of codes defined outside the decorator is empty), and a further
\* registration with legacy codes would succeed for another code.
C17_Witness ==
    /\ DefcodeSucceeded
    /\ non_decorator_codes = <<>>
    /\ Len(active_code_to_type) = 1
    /\ Len(legacy_code_to_type) = 1
    /\ \E code \in Codes, t \in Types :
           InnerOutcome(code, <<code>>, t).err = NoError

\* the registry as FcodeCore.__init__ leaves it
EmptyRegistry == <<<<>>, <<>>, FALSE, <<>>>>

\* C18: the instance is built by the first access, with empty mappings, an
\* empty list and the lock off; every later access reaches that same
\* instance, whose state a call that raises or only sets the lock leaves
\* intact; a new instance is built only by the first access after a discard
\* (or the first of all); discard with validation raises when there is no
\* instance and changes nothing.
C18_SingletonLifecycle ==
    [][/\ (last'.op # "discard" /\ ~initialized) =>
              /\ initialized'
              /\ constructed' = constructed + 1
              /\ registry = EmptyRegistry
       /\ (last'.op # "discard" /\ initialized) =>
              /\ initialized'
              /\ constructed' = constructed
              /\ (last'.err # NoError \/ last'.op = "set_deflock") =>
                     UNCHANGED <<active_code_to_type, legacy_code_to_type,
                                 non_decorator_codes>>
       /\ constructed' # constructed =>
              /\ ~initialized
              /\ constructed = 0 \/ last.op = "discard"
       /\ last'.op = "discard" =>
              /\ ~initialized'
              /\ constructed' = constructed
       /\ (~initialized /\ discard(TRUE)) =>
              /\ last'.err # NoError
              /\ UNCHANGED <<initialized, constructed, registry>>]_vars

\* C18 witness: after a discard a second instance has been built and holds
\* a code, the lock being set.
C18_Witness ==
    /\ initialized
    /\ constructed = 2
    /\ active_code_to_type # <<>>
    /\ deflock

\* C12: a try_undef_non_decorator_codes call that returns True removes
\* exactly what direct defcode calls put into the registry: every active or
\* legacy entry a direct call created is gone, and every entry the decorator
\* created is still there with its type.
C12_ClearRemovesDirectEntries ==
    [][(ClearCalled' /\ last'.ret = "True") =>
        \A c \in Codes :
            /\ <<"active", c>> \in direct_entries =>
                   ~Has(active_code_to_type', c)
            /\ <<"legacy", c>> \in direct_entries =>
                   ~Has(legacy_code_to_type', c)
            /\ (/\ Has(active_code_to_type, c)
                /\ <<"active", c>> \notin direct_entries) =>
                   /\ Has(active_code_to_type', c)
                   /\ Get(active_code_to_type', c) =
                          Get(active_code_to_type, c)
            /\ (/\ Has(legacy_code_to_type, c)
                /\ <<"legacy", c>> \notin direct_entries) =>
                   /\ Has(legacy_code_to_type', c)
                   /\ Get(legacy_code_to_type', c) =
                          Get(legacy_code_to_type, c)]_vars

\* C13: in every reachable state get_all_codes_for_type(t) fails exactly
\* when no active code maps to t, legacy codes or not, and otherwise returns
\* an active code of t followed by the legacy codes that map to t, all of
\* them and nothing else, in the order they were registered.
C13_AllCodesInOrder ==
    \A t \in Types :
        LET r == get_all_codes_for_type(t)
        IN  /\ r.raised <=>
                   ~\E i \in DOMAIN active_code_to_type :
                       active_code_to_type[i].v = t
            /\ ~r.raised =>
                   /\ \E i \in DOMAIN active_code_to_type :
                          /\ active_code_to_type[i].k = r.val[1]
                          /\ active_code_to_type[i].v = t
                   /\ Tail(r.val) =
                          SelectSeq(legacy_registered,
                              LAMBDA c :
                                  \E i \in DOMAIN legacy_code_to_type :
                                      /\ legacy_code_to_type[i].k = c
                                      /\ legacy_code_to_type[i].v = t)

\* C13 witness: a type has an active code and two legacy codes, "a"
\* registered before "", and get_all_codes_for_type returns the three codes.
C13_Witness ==
    /\ legacy_registered = <<"a", "">>
    /\ \E t \in Types :
           /\ ~get_all_codes_for_type(t).raised
           /\ Len(get_all_codes_for_type(t).val) = 3
           /\ Tail(get_all_codes_for_type(t).val) = <<"a", "">>

====
